---- MODULE Spec2Model ----
(***************************************************************************)
(* Model of the comment scheduler of karibshams/d2:                        *)
(*   app/utils/scheduler.py        TaskScheduler (fetch cycle, sweep)      *)
(*   app/core/comment_processor.py CommentProcessor (pipeline, approve)    *)
(*   app/core/ai_processor.py      AIProcessor (approval decision)         *)
(*   app/database/crud.py          repository operations                   *)
(* Confidence values are in hundredths (0.8 is 80).                        *)
(***************************************************************************)
EXTENDS Integers, Sequences, FiniteSets, TLC

VARIABLES
    threshold,      \* settings.auto_approve_confidence, fixed at startup
    configured,     \* platforms whose adapter has is_configured() = True
    owner_active,   \* the "owner_active" setting in the repository
    comments,       \* table comments: row id = index
    replies,        \* table replies: row id = index
    sched,          \* the scheduler thread: position and locals
    decision,       \* one evaluation of a function taken alone: its input and result
    sched2,         \* the scheduler thread a second dashboard session started
    loop,           \* one scheduler's running flag and the threads start() made
    callers,        \* two concurrent calls of create_or_update
    settings,       \* table settings: row id = index
    notice          \* update_callbacks and the notify_update call in progress

vars == <<threshold, configured, owner_active, comments, replies, sched, decision,
          sched2, loop, callers, settings, notice>>

\* the variables only the specifications of one mechanism taken apart change
aside == <<sched2, loop, callers, settings, notice>>

\* the tables and the observers, which the scheduler loop and the upsert leave alone
apart == <<settings, notice>>

----------------------------------------------------------------------------
(* Bounds *)

MaxComments == 1    \* rows of table comments
MaxFetch == 2       \* comments one adapter returns in one cycle
MaxThreads == 3     \* threads start() makes for one scheduler
MaxWrites == 3      \* calls of set_owner_active
MaxObservers == 4   \* registered callbacks
MaxReplies == 2     \* rows of table replies when stored comments are processed again

(* Program constants *)

SweepLimit == 50            \* get_pending(db, limit=50)
FallbackConfidence == 30    \* generate_reply on failure: "confidence": 0.3
BaseConfidence == 70        \* _calculate_confidence: base_confidence = 0.7
KeywordConfidence == 85     \* classify_comment, keyword match: "confidence": 0.85
ClassifyFailConfidence == 50 \* classify_comment on failure: "confidence": 0.5

\* self.integrations, in dict order
PlatformOrder == <<"youtube", "facebook", "instagram", "linkedin", "twitter">>

\* the labels of the classifier prompt (classify_comment 39-45)
CommentTypes == {"lead", "praise", "question", "complaint", "spam", "general"}

\* comment_type values _needs_approval is evaluated on: the labels and another string
DecisionTypes == CommentTypes \cup {"other"}

\* confidence values _needs_approval is evaluated on
Confidences == {0, 30, 60, 79, 80, 81, 85, 90, 100}

\* platform-assigned comment ids an adapter may return
CommentIds == {"c1", "c2"}

\* configured values of auto_approve_confidence (0.8 is the default)
Thresholds == {30, 80, 90}

\* adapter sets of the modelled deployment: credentials present for these
Deployments == {{"facebook", "twitter"}}

----------------------------------------------------------------------------
(* AIProcessor *)

Min(a, b) == IF a < b THEN a ELSE b
Max(a, b) == IF a > b THEN a ELSE b

\* _calculate_confidence(comment_type, reply); goodLength: 20 <= words <= 50
calculate_confidence(comment_type, goodLength) ==
    LET byType == IF comment_type \in {"praise", "general"} THEN BaseConfidence + 15
                  ELSE IF comment_type \in {"lead", "complaint"} THEN BaseConfidence - 10
                  ELSE BaseConfidence
        byLen  == IF goodLength THEN byType + 5 ELSE byType
    IN  Min(Max(byLen, 10), 100)

\* mutants of _needs_approval: the threshold itself excluded; lead left out of
\* the categories that always need approval; the third branch always True
needs_approval_strict(comment_type, confidence, thr) ==
    IF comment_type \in {"praise", "general"} /\ confidence > thr THEN FALSE
    ELSE IF comment_type \in {"complaint", "lead"} THEN TRUE
    ELSE confidence <= thr

needs_approval_nolead(comment_type, confidence, thr) ==
    IF comment_type \in {"praise", "general"} /\ confidence >= thr THEN FALSE
    ELSE IF comment_type \in {"complaint"} THEN TRUE
    ELSE confidence < thr

needs_approval_table(comment_type, confidence, thr) ==
    IF comment_type \in {"praise", "general"} /\ confidence >= thr THEN FALSE
    ELSE TRUE

\* _needs_approval(comment_type, confidence), thr = settings.auto_approve_confidence
needs_approval(comment_type, confidence, thr) ==
    IF comment_type \in {"praise", "general"} /\ confidence >= thr THEN FALSE
    ELSE IF comment_type \in {"complaint", "lead"} THEN TRUE
    ELSE confidence < thr

\* generate_reply: gen is "short" / "good" (the model answered; reply length) or
\* "fail" (the model call raised: fallback reply)
GenOutcomes == {"short", "good", "fail"}

generate_reply(comment_type, gen, thr) ==
    IF gen = "fail"
    THEN [reply |-> "fallback", confidence |-> FallbackConfidence, needs_approval |-> TRUE]
    ELSE LET c == calculate_confidence(comment_type, gen = "good")
         IN  [reply |-> "generated", confidence |-> c,
              needs_approval |-> needs_approval(comment_type, c, thr)]

\* COMMENT_TYPES, in dict order, and the keywords of each type
KeywordOrder == <<"lead", "praise", "question", "complaint", "spam">>

Keywords(t) ==
    CASE t = "lead" -> {"interested", "how much", "price", "buy", "want", "need", "sign up"}
      [] t = "praise" -> {"amazing", "great", "awesome", "love", "fantastic", "thank you"}
      [] t = "question" -> {"?", "how", "what", "when", "where", "why", "can you"}
      [] t = "complaint" -> {"problem", "issue", "wrong", "bad", "terrible", "hate",
                             "disappointed"}
      [] t = "spam" -> {"click here", "follow me", "check my", "dm me", "link in bio"}

\* A comment text is the set of the phrases written in it; a phrase is written
\* in capitals or not.
SamplePhrases == {"how much", "great", "problem"}
Occurrences == [phrase : SamplePhrases, capitals : BOOLEAN]
Texts == {T \in SUBSET Occurrences : Cardinality(T) <= 2}

\* comment_text.lower(): the phrases of the text, capitals gone
lower(text) == {[phrase |-> o.phrase, capitals |-> FALSE] : o \in text}

\* keyword in comment_lower: a substring of a phrase of the text, compared
\* character by character
occurs(keyword, text) ==
    \E o \in text :
        /\ ~o.capitals
        /\ \/ keyword = o.phrase
           \/ keyword = "how" /\ o.phrase = "how much"

\* what the model call of classify_comment gives: a type with a confidence, or
\* type "fail" when the call raises or its answer is not the JSON asked for
ModelTypes == DecisionTypes \cup {"fail"}
ModelConfidences == {60, 95}
ModelAnswers == [type : ModelTypes, confidence : ModelConfidences]

\* mutant of classify_comment: the model is asked first
classify_comment_model_first(text, model) ==
    IF model.type # "fail"
    THEN [type |-> model.type, confidence |-> model.confidence, method |-> "ai",
          called |-> TRUE]
    ELSE [type |-> "general", confidence |-> ClassifyFailConfidence, method |-> "fallback",
          called |-> TRUE]

\* classify_comment(comment_text, platform); called: the model was called
classify_comment(text, model) ==
    LET comment_lower == lower(text)
        hits == SelectSeq(KeywordOrder,
                          LAMBDA t : \E k \in Keywords(t) : occurs(k, comment_lower))
    IN  IF hits # <<>>
        THEN [type |-> Head(hits), confidence |-> KeywordConfidence, method |-> "keyword",
              called |-> FALSE]
        ELSE IF model.type # "fail"
        THEN [type |-> model.type, confidence |-> model.confidence, method |-> "ai",
              called |-> TRUE]
        ELSE [type |-> "general", confidence |-> ClassifyFailConfidence,
              method |-> "fallback", called |-> TRUE]

\* _detect_triggers: the workflows list is not empty; words: the comment or the
\* reply holds one of the trigger words
detect_triggers(comment_type, words) ==
    comment_type \in {"lead", "complaint", "praise"} \/ words

\* the four rules of _detect_triggers, in the order of the code: the comment
\* types and the words that make a rule match, the tag and the workflow it adds
RuleOrder == <<"lead", "support", "testimonial", "high_value">>

RuleTypes(rule) ==
    CASE rule = "lead" -> {"lead"}
      [] rule = "support" -> {"complaint"}
      [] rule = "testimonial" -> {"praise"}
      [] rule = "high_value" -> {}

RuleWords(rule) ==
    CASE rule = "lead" -> {"interested", "price", "buy", "info"}
      [] rule = "support" -> {"help", "problem", "issue"}
      [] rule = "testimonial" -> {}
      [] rule = "high_value" -> {"course", "program", "coaching", "consultation"}

RuleTag(rule) ==
    CASE rule = "lead" -> "hot_lead"
      [] rule = "support" -> "needs_support"
      [] rule = "testimonial" -> "happy_customer"
      [] rule = "high_value" -> "high_value_prospect"

RuleWorkflow(rule) ==
    CASE rule = "lead" -> "lead_nurture"
      [] rule = "support" -> "customer_service"
      [] rule = "testimonial" -> "testimonial_request"
      [] rule = "high_value" -> "sales_followup"

\* The comment and the reply are each the set of the words written in them; a
\* word is written in capitals or not.
SampleWords == {"price", "information", "problem", "coaching"}
WordOccurrences == [word : SampleWords, capitals : BOOLEAN]
WordTexts == {T \in SUBSET WordOccurrences : Cardinality(T) <= 1}

\* f"{comment} {reply}".lower()
combined_lower(comment, reply) ==
    {[word |-> o.word, capitals |-> FALSE] : o \in comment \cup reply}

\* word in combined_text: a substring of a word of the text, compared character
\* by character
word_in(word, text) ==
    \E o \in text :
        /\ ~o.capitals
        /\ \/ word = o.word
           \/ word = "info" /\ o.word = "information"

\* mutant of detect_trigger_lists: the rules are alternatives, the first that
\* matches is applied
detect_trigger_lists_first(comment_type, comment, reply) ==
    LET combined_text == combined_lower(comment, reply)
        matched == SelectSeq(RuleOrder, LAMBDA rule :
                       \/ comment_type \in RuleTypes(rule)
                       \/ \E w \in RuleWords(rule) : word_in(w, combined_text))
        applied == IF matched = <<>> THEN <<>> ELSE <<Head(matched)>>
    IN  [tags |-> [i \in DOMAIN applied |-> RuleTag(applied[i])],
         workflows |-> [i \in DOMAIN applied |-> RuleWorkflow(applied[i])]]

\* _detect_triggers(comment, reply, comment_type): the tags and workflows lists
detect_trigger_lists(comment_type, comment, reply) ==
    LET combined_text == combined_lower(comment, reply)
        matched == SelectSeq(RuleOrder, LAMBDA rule :
                       \/ comment_type \in RuleTypes(rule)
                       \/ \E w \in RuleWords(rule) : word_in(w, combined_text))
    IN  [tags |-> [i \in DOMAIN matched |-> RuleTag(matched[i])],
         workflows |-> [i \in DOMAIN matched |-> RuleWorkflow(matched[i])]]

----------------------------------------------------------------------------
(* Repository *)

CommentRow(p, c, t) ==
    [platform |-> p, platform_comment_id |-> c, comment_type |-> t, has_reply |-> FALSE]

\* content: the model's text ("generated") or the fallback text ("fallback")
ReplyRow(cid, st, conf, content) ==
    [comment_id |-> cid, content |-> content, status |-> st, confidence |-> conf,
     platform_reply_id |-> "", posted_at |-> "null", approved_by |-> "null"]

\* mutant of get_by_platform_id: the filter compares the comment id with the
\* platform column, so no row matches
get_by_platform_id_none(rows, p, c) ==
    {i \in DOMAIN rows : rows[i].platform = p /\ rows[i].platform = c}

\* CRUDComment.get_by_platform_id: ids of the matching rows
get_by_platform_id(rows, p, c) ==
    {i \in DOMAIN rows : rows[i].platform = p /\ rows[i].platform_comment_id = c}

\* Query.first()
FirstOf(S) == CHOOSE i \in S : \A j \in S : i <= j

\* mutant of IsNew: every fetched comment is taken as new
IsNew_always(rows, p, c) == TRUE

\* _fetch_platform_data 179-185: if not existing
IsNew(rows, p, c) == get_by_platform_id(rows, p, c) = {}

\* mutant of create_or_update: a new row gets its id but is not stored
create_or_update_lost(rows, p, c, t) ==
    LET existing == get_by_platform_id(rows, p, c)
    IN  IF existing # {}
        THEN [rows |-> rows, id |-> FirstOf(existing)]
        ELSE [rows |-> rows, id |-> Len(rows) + 1]

\* mutant of create_or_update: the update writes the whole row, defaults included
create_or_update_reset(rows, p, c, t) ==
    LET existing == get_by_platform_id(rows, p, c)
    IN  IF existing # {}
        THEN [rows |-> [rows EXCEPT ![FirstOf(existing)] = CommentRow(p, c, t)],
              id |-> FirstOf(existing)]
        ELSE [rows |-> Append(rows, CommentRow(p, c, t)), id |-> Len(rows) + 1]

\* CRUDComment.create_or_update: the rows after the call and the id of the row
create_or_update(rows, p, c, t) ==
    LET existing == get_by_platform_id(rows, p, c)
    IN  IF existing # {}
        THEN [rows |-> [rows EXCEPT ![FirstOf(existing)].comment_type = t],
              id |-> FirstOf(existing)]
        ELSE [rows |-> Append(rows, CommentRow(p, c, t)), id |-> Len(rows) + 1]

\* CRUDReply.approve
approve(rs, r, by) ==
    IF r \in DOMAIN rs
    THEN [rs EXCEPT ![r].status = "approved", ![r].approved_by = by]
    ELSE rs

\* CRUDReply.reject
reject(rs, r) ==
    IF r \in DOMAIN rs THEN [rs EXCEPT ![r].status = "rejected"] ELSE rs

\* CRUDReply.mark_as_posted
mark_as_posted(rs, r, rid) ==
    IF r \in DOMAIN rs
    THEN [rs EXCEPT ![r].status = "posted", ![r].platform_reply_id = rid,
                    ![r].posted_at = "set"]
    ELSE rs

\* CRUDComment.mark_as_replied
mark_as_replied(rows, i) ==
    IF i \in DOMAIN rows THEN [rows EXCEPT ![i].has_reply = TRUE] ELSE rows

RECURSIVE Descending(_)
Descending(n) == IF n = 0 THEN <<>> ELSE <<n>> \o Descending(n - 1)

\* mutant of get_pending: the replies approved by the pipeline are returned too
get_pending_unposted(rs, limit) ==
    LET all == SelectSeq(Descending(Len(rs)),
                         LAMBDA r : rs[r].status \in {"pending", "auto_approved"})
    IN  IF Len(all) > limit THEN SubSeq(all, 1, limit) ELSE all

\* CRUDReply.get_pending: ids of the pending replies, newest first, at most limit
get_pending(rs, limit) ==
    LET all == SelectSeq(Descending(Len(rs)), LAMBDA r : rs[r].status = "pending")
    IN  IF Len(all) > limit THEN SubSeq(all, 1, limit) ELSE all

----------------------------------------------------------------------------
(* CommentProcessor *)

\* outcomes of the repository calls of one process_comment call
DbOutcomes == {"ok", "fail_comment", "fail_reply"}

\* outcomes of the record_metric call of process_comment's except handler
\* (134-141), made on the repository session the failed call used: the metric
\* is recorded, or the call raises and process_comment raises with it
HandlerOutcomes == {"recorded", "raise"}

\* mutant of reply_status: the status is left to the column default
reply_status_default(needs) == "pending"

\* process_comment, Step 4: "pending" if needs_approval else "auto_approved"
reply_status(needs) == IF needs THEN "pending" ELSE "auto_approved"

\* process_comment(db, comment_data): the tables after the call and the result's
\* reply status and id ("none" when the result has no "reply": the call failed).
\* cls: what classify_comment returns; gen: outcome of the model call of
\* generate_reply; db: outcome of the repository calls.
process_comment(cs, rs, p, c, cls, gen, db, thr) ==
    LET cu  == create_or_update(cs, p, c, cls)
        cs1 == cu.rows
        cid == cu.id
        g   == generate_reply(cls, gen, thr)
        row == ReplyRow(cid, reply_status(g.needs_approval), g.confidence, g.reply)
    IN  IF db = "fail_comment" THEN [comments |-> cs, replies |-> rs, status |-> "none", id |-> 0]
        ELSE IF db = "fail_reply" THEN [comments |-> cs1, replies |-> rs, status |-> "none", id |-> 0]
        ELSE [comments |-> cs1, replies |-> Append(rs, row),
              status |-> row.status, id |-> Len(rs) + 1]

\* outcomes of the calls of _process_ghl_actions: all succeed; the contact call
\* returns a failure; a CRM call raises; crud_ghl.create, which records the
\* action on the repository session, raises
CrmOutcomes == {"ok", "contact_failed", "raise", "record_raise"}

\* _process_ghl_actions: the "success" of the returned dict; every exception is
\* caught (208-213)
process_ghl_actions(crm) == IF crm = "ok" THEN "success" ELSE "failed"

\* which mandatory keys the raw comment dict has
FieldCases == {"complete", "no_platform", "no_content"}

\* mutant of has_fields: a missing key is not noticed
has_fields_any(fields) == TRUE

\* process_comment 26-27: comment_data["platform"], comment_data["content"]
has_fields(fields) == fields = "complete"

\* the raw comment of a call and the outcomes of the calls it makes
RawCalls ==
    {x \in [fields : FieldCases, text : Texts, model : ModelAnswers, gen : GenOutcomes,
            words : BOOLEAN, crm : CrmOutcomes, db : DbOutcomes,
            handler : HandlerOutcomes] :
        (x.db = "ok" /\ x.crm # "record_raise") => x.handler = "recorded"}

\* the result of a call: what it returned (success, error, ghl; ghl "null": no
\* CRM step), whether it raised, the classification, and whether the Reply row
\* created carries workflows in its ghl_triggers
NoResult ==
    [success |-> FALSE, error |-> FALSE, raised |-> FALSE, ghl |-> "null",
     type |-> "none", method |-> "none", confidence |-> 0, called |-> FALSE,
     workflows |-> FALSE]

\* mutant of process_call: triggers are detected and the CRM step runs only for
\* a reply that needs no approval
process_call_gated(raw, thr) ==
    LET cls  == classify_comment(raw.text, raw.model)
        res  == process_comment(<<>>, <<>>, "facebook", "c1", cls.type, raw.gen, raw.db, thr)
        wf   == /\ raw.gen # "fail" /\ detect_triggers(cls.type, raw.words)
                /\ res.status = "auto_approved"
        ghl  == IF wf THEN process_ghl_actions(raw.crm) ELSE "null"
        done == [NoResult EXCEPT !.type = cls.type, !.method = cls.method,
                                 !.confidence = cls.confidence, !.called = cls.called,
                                 !.workflows = res.status # "none" /\ wf]
    IN  IF ~has_fields(raw.fields)
        THEN [comments |-> <<>>, replies |-> <<>>,
              result |-> [NoResult EXCEPT !.error = TRUE]]
        ELSE IF res.status = "none"
        THEN [comments |-> res.comments, replies |-> res.replies,
              result |-> [done EXCEPT !.error = raw.handler = "recorded",
                                      !.raised = raw.handler = "raise"]]
        ELSE IF ghl # "null" /\ raw.crm = "record_raise" /\ raw.handler = "raise"
        THEN [comments |-> res.comments, replies |-> res.replies,
              result |-> [done EXCEPT !.raised = TRUE]]
        ELSE [comments |-> res.comments, replies |-> res.replies,
              result |-> [done EXCEPT !.success = TRUE, !.ghl = ghl]]

\* process_comment(db, comment_data) as a whole, on empty tables. The except
\* handler (131-147) returns success False with the error, or raises when its
\* record_metric call raises. No call rolls the session back, so after a
\* repository call has raised the next one on the session (raw.handler) may raise
\* as well: after crud_ghl.create raised inside _process_ghl_actions, that is the
\* record_metric call of 103-112 and then the one of the handler.
process_call(raw, thr) ==
    LET cls  == classify_comment(raw.text, raw.model)
        res  == process_comment(<<>>, <<>>, "facebook", "c1", cls.type, raw.gen, raw.db, thr)
        wf   == raw.gen # "fail" /\ detect_triggers(cls.type, raw.words)
        ghl  == IF wf THEN process_ghl_actions(raw.crm) ELSE "null"
        done == [NoResult EXCEPT !.type = cls.type, !.method = cls.method,
                                 !.confidence = cls.confidence, !.called = cls.called,
                                 !.workflows = res.status # "none" /\ wf]
    IN  IF ~has_fields(raw.fields)
        THEN [comments |-> <<>>, replies |-> <<>>,
              result |-> [NoResult EXCEPT !.error = TRUE]]
        ELSE IF res.status = "none"
        THEN [comments |-> res.comments, replies |-> res.replies,
              result |-> [done EXCEPT !.error = raw.handler = "recorded",
                                      !.raised = raw.handler = "raise"]]
        ELSE IF ghl # "null" /\ raw.crm = "record_raise" /\ raw.handler = "raise"
        THEN [comments |-> res.comments, replies |-> res.replies,
              result |-> [done EXCEPT !.raised = TRUE]]
        ELSE [comments |-> res.comments, replies |-> res.replies,
              result |-> [done EXCEPT !.success = TRUE, !.ghl = ghl]]

\* the metric_type of the analytics rows a call stored: record_metric of 103-112
\* when the call succeeded, record_metric of the except handler (135-141) when
\* it returned the error; none when the handler's record_metric raised
recorded_metrics(result) ==
    IF result.success THEN <<"comment_processed">>
    ELSE IF result.error THEN <<"processing_error">>
    ELSE <<>>

----------------------------------------------------------------------------
(* TaskScheduler *)

\* pc: position; the other fields are the locals of the running activity
\* (result: what the adapter's post call returned; processed: the current
\* iteration of the loop over new_comments called process_comment)
IdleSched ==
    [pc |-> "idle", owner_active |-> FALSE, todo |-> <<>>, platform |-> "",
     new_comments |-> <<>>, pending |-> <<>>, reply |-> 0, result |-> "none",
     processed |-> FALSE]

\* mutant of is_configured: every adapter reports itself configured
is_configured_always(p, conf) == TRUE

\* <adapter>.is_configured(): the adapter's credentials are present
is_configured(p, conf) == p \in conf

\* _fetch_platform_data 168-175: the post of a fetched comment is looked up by
\* metadata post_id / video_id / media_id; linkedin comments carry post_urn and
\* twitter replies original_tweet_id, so their lookup finds no post
HasPostKey(p) == p \in {"youtube", "facebook", "instagram"}

\* sequences over S of length at most n
RECURSIVE SeqsUpTo(_, _)
SeqsUpTo(S, n) ==
    IF n = 0 THEN {<<>>}
    ELSE LET shorter == SeqsUpTo(S, n - 1)
         IN  shorter \cup {Append(q, x) : q \in {r \in shorter : Len(r) = n - 1}, x \in S}

Range(q) == {q[i] : i \in DOMAIN q}

\* _fetch_platform_data 196: not owner_active and status == "auto_approved"
ShouldPost(owner, status) == ~owner /\ status = "auto_approved"

\* mutant of SweepGate: the sweep goes on whatever the setting says
SweepGate_open(owner) == TRUE

\* process_pending_replies 261: if not owner_active
SweepGate(owner) == ~owner

\* mutant of CanAutoApprove: a confidence equal to the threshold is not enough
CanAutoApprove_strict(confidence, thr) == confidence > thr

\* process_pending_replies 267: reply.confidence >= auto_approve_confidence
CanAutoApprove(confidence, thr) == confidence >= thr

\* outcomes of the adapter's post call: success, a failure result, an exception
PostOutcomes == {"success", "failure", "raise"}

\* reply_to_tweet returns a failure result on every path
AdapterOutcomes(p) == IF p = "twitter" THEN {"failure"} ELSE PostOutcomes

\* mutant of post_reply: the reply is marked posted whatever the adapter said
post_reply_always(rs, r, outcome) == mark_as_posted(rs, r, "rid")

\* _post_reply 233-253: the replies table after the adapter call ended in outcome
post_reply(rs, r, outcome) ==
    IF outcome = "success" THEN mark_as_posted(rs, r, "rid") ELSE rs

\* fetch_all_comments 88-90
FetchStart ==
    /\ sched.pc = "idle"
    /\ sched' = [IdleSched EXCEPT !.pc = "fetch_platforms",
                                  !.owner_active = owner_active,
                                  !.todo = PlatformOrder]
    /\ UNCHANGED <<aside, threshold, configured, owner_active, comments, replies, decision>>

\* fetch_all_comments 92-97 and _fetch_platform_data 104-164: the next adapter;
\* a configured one returns its comments
FetchPlatform ==
    /\ sched.pc = "fetch_platforms"
    /\ IF sched.todo = <<>>
       THEN sched' = IdleSched
       ELSE LET p == Head(sched.todo)
            IN  IF ~is_configured(p, configured)
                THEN sched' = [sched EXCEPT !.todo = Tail(sched.todo)]
                ELSE \E q \in SeqsUpTo(CommentIds, MaxFetch) :
                        /\ Len(comments) + Cardinality({c \in Range(q) :
                                \A i \in DOMAIN comments :
                                    comments[i].platform_comment_id # c}) <= MaxComments
                        /\ sched' = [sched EXCEPT !.todo = Tail(sched.todo),
                                                  !.platform = p,
                                                  !.new_comments = q,
                                                  !.pc = "fetch_comments"]
    /\ UNCHANGED <<aside, threshold, configured, owner_active, comments, replies, decision>>

\* _fetch_platform_data 167-203: one iteration of the loop over new_comments
FetchComment ==
    /\ sched.pc = "fetch_comments"
    /\ IF sched.new_comments = <<>>
       THEN /\ sched' = [sched EXCEPT !.pc = "fetch_platforms", !.platform = "",
                                      !.processed = FALSE]
            /\ UNCHANGED <<comments, replies>>
       ELSE LET p    == sched.platform
                c    == Head(sched.new_comments)
                skip == [sched EXCEPT !.new_comments = Tail(sched.new_comments),
                                      !.processed = FALSE]
                rest == [skip EXCEPT !.processed = TRUE]
                \* process_comment raised: caught at fetch_all_comments 96-97
                abort == [sched EXCEPT !.pc = "fetch_platforms", !.platform = "",
                                       !.new_comments = <<>>, !.processed = FALSE]
            IN  IF ~HasPostKey(p) \/ ~IsNew(comments, p, c)
                THEN /\ sched' = skip
                     /\ UNCHANGED <<comments, replies>>
                ELSE \E cls \in CommentTypes, gen \in GenOutcomes, db \in DbOutcomes,
                        handler \in HandlerOutcomes :
                        LET res == process_comment(comments, replies, p, c, cls, gen,
                                                   db, threshold)
                        IN  /\ comments' = res.comments
                            /\ replies' = res.replies
                            /\ sched' = IF db # "ok" /\ handler = "raise"
                                        THEN abort
                                        ELSE IF ShouldPost(sched.owner_active, res.status)
                                        THEN [rest EXCEPT !.pc = "fetch_post",
                                                          !.reply = res.id]
                                        ELSE rest
    /\ UNCHANGED <<aside, threshold, configured, owner_active, decision>>

\* _post_reply 214-231 called from _fetch_platform_data 197-203: the adapter call
FetchPost ==
    /\ sched.pc = "fetch_post"
    /\ \E outcome \in AdapterOutcomes(sched.platform) :
          sched' = [sched EXCEPT !.pc = "fetch_mark", !.result = outcome]
    /\ UNCHANGED <<aside, threshold, configured, owner_active, comments, replies, decision>>

\* _post_reply 233-253: the adapter's result handled
FetchMark ==
    /\ sched.pc = "fetch_mark"
    /\ replies' = post_reply(replies, sched.reply, sched.result)
    /\ sched' = [sched EXCEPT !.pc = "fetch_comments", !.reply = 0, !.result = "none"]
    /\ UNCHANGED <<aside, threshold, configured, owner_active, comments, decision>>

\* process_pending_replies 257-263
SweepStart ==
    /\ sched.pc = "idle"
    /\ sched' = IF SweepGate(owner_active)
                THEN [IdleSched EXCEPT !.pc = "sweep_replies",
                                       !.owner_active = owner_active,
                                       !.pending = get_pending(replies, SweepLimit)]
                ELSE IdleSched
    /\ UNCHANGED <<aside, threshold, configured, owner_active, comments, replies, decision>>

\* process_pending_replies 265-286: one iteration of the loop over pending
SweepReply ==
    /\ sched.pc = "sweep_replies"
    /\ IF sched.pending = <<>>
       THEN /\ sched' = IdleSched
            /\ UNCHANGED replies
       ELSE LET r    == Head(sched.pending)
                rest == [sched EXCEPT !.pending = Tail(sched.pending)]
            IN  IF ~CanAutoApprove(replies[r].confidence, threshold)
                THEN /\ sched' = rest
                     /\ UNCHANGED replies
                ELSE /\ replies' = approve(replies, r, "ai_auto")
                     /\ LET p == comments[replies[r].comment_id].platform
                        IN  sched' = IF is_configured(p, configured)
                                     THEN [rest EXCEPT !.pc = "sweep_post",
                                                       !.platform = p, !.reply = r]
                                     ELSE rest
    /\ UNCHANGED <<aside, threshold, configured, owner_active, comments, decision>>

\* _post_reply 214-231 called from process_pending_replies 288-291: the adapter call
SweepPost ==
    /\ sched.pc = "sweep_post"
    /\ \E outcome \in AdapterOutcomes(sched.platform) :
          sched' = [sched EXCEPT !.pc = "sweep_mark", !.result = outcome]
    /\ UNCHANGED <<aside, threshold, configured, owner_active, comments, replies, decision>>

\* _post_reply 233-253: the adapter's result handled
SweepMark ==
    /\ sched.pc = "sweep_mark"
    /\ replies' = post_reply(replies, sched.reply, sched.result)
    /\ sched' = [sched EXCEPT !.pc = "sweep_replies", !.platform = "", !.reply = 0,
                              !.result = "none"]
    /\ UNCHANGED <<aside, threshold, configured, owner_active, comments, decision>>

----------------------------------------------------------------------------
(* The pending-reply sweep of a second scheduler *)

\* dashboard.py 121-123 makes one TaskScheduler for each browser session; sched2
\* is the thread of a second session's scheduler on the same repository. Its
\* sweep is process_pending_replies as above, with its own locals.

\* process_pending_replies 257-263
Sweep2Start ==
    /\ sched2.pc = "idle"
    /\ sched2' = IF SweepGate(owner_active)
                 THEN [IdleSched EXCEPT !.pc = "sweep_replies",
                                        !.owner_active = owner_active,
                                        !.pending = get_pending(replies, SweepLimit)]
                 ELSE IdleSched
    /\ UNCHANGED <<apart, threshold, configured, owner_active, comments, replies, sched,
                   decision, loop, callers>>

\* process_pending_replies 265-286: one iteration of the loop over pending
Sweep2Reply ==
    /\ sched2.pc = "sweep_replies"
    /\ IF sched2.pending = <<>>
       THEN /\ sched2' = IdleSched
            /\ UNCHANGED replies
       ELSE LET r    == Head(sched2.pending)
                rest == [sched2 EXCEPT !.pending = Tail(sched2.pending)]
            IN  IF ~CanAutoApprove(replies[r].confidence, threshold)
                THEN /\ sched2' = rest
                     /\ UNCHANGED replies
                ELSE /\ replies' = approve(replies, r, "ai_auto")
                     /\ LET p == comments[replies[r].comment_id].platform
                        IN  sched2' = IF is_configured(p, configured)
                                      THEN [rest EXCEPT !.pc = "sweep_post",
                                                        !.platform = p, !.reply = r]
                                      ELSE rest
    /\ UNCHANGED <<apart, threshold, configured, owner_active, comments, sched, decision,
                   loop, callers>>

\* _post_reply 214-231: the adapter call
Sweep2Post ==
    /\ sched2.pc = "sweep_post"
    /\ \E outcome \in AdapterOutcomes(sched2.platform) :
          sched2' = [sched2 EXCEPT !.pc = "sweep_mark", !.result = outcome]
    /\ UNCHANGED <<apart, threshold, configured, owner_active, comments, replies, sched,
                   decision, loop, callers>>

\* _post_reply 233-253: the adapter's result handled
Sweep2Mark ==
    /\ sched2.pc = "sweep_mark"
    /\ replies' = post_reply(replies, sched2.reply, sched2.result)
    /\ sched2' = [sched2 EXCEPT !.pc = "sweep_replies", !.platform = "", !.reply = 0,
                                !.result = "none"]
    /\ UNCHANGED <<apart, threshold, configured, owner_active, comments, sched, decision,
                   loop, callers>>

----------------------------------------------------------------------------
(* TaskScheduler.start / stop / _run *)

ThreadIds == 1..MaxThreads

\* what a thread made by start() is doing: not made yet; the initial fetch of
\* _run 78; between two run_pending calls; inside run_pending running the fetch
\* cycle, the sweep or the analytics rollup; out of the while loop; ended by an
\* exception
Activities == {"fetch", "sweep", "rollup"}

Executing(pc) == pc \in Activities \cup {"initial"}

\* __init__ 24-25: running False, thread None
\* jobs: how many times _run registered each periodic activity with the
\* schedule module (72-75); nothing in the code removes a job
NoLoop ==
    [running |-> FALSE, thread |-> 0, pcs |-> [t \in ThreadIds |-> "unborn"],
     jobs |-> 0]

\* start 57-60: nothing when running, else a new thread on _run
LoopStart ==
    /\ ~loop.running
    /\ \E t \in ThreadIds :
          /\ loop.pcs[t] = "unborn"
          /\ \A u \in ThreadIds : u < t => loop.pcs[u] # "unborn"
          /\ loop' = [running |-> TRUE, thread |-> t,
                      pcs |-> [loop.pcs EXCEPT ![t] = "initial"],
                      jobs |-> loop.jobs + 1]
    /\ UNCHANGED <<apart, threshold, configured, owner_active, comments, replies, sched,
                   decision, sched2, callers>>

\* stop 65-67: running False; join(timeout=5) returns when the thread has ended
\* or after five seconds, the thread still in its activity
LoopStop ==
    /\ loop.running
    /\ loop' = [loop EXCEPT !.running = FALSE]
    /\ UNCHANGED <<apart, threshold, configured, owner_active, comments, replies, sched,
                   decision, sched2, callers>>

\* outcomes of an activity: it returns, or an exception leaves it (none of
\* fetch_all_comments, process_pending_replies, update_analytics has an except
\* around its repository reads, and _run has none around the calls)
ActivityOutcomes == {"returned", "raised"}

\* where the thread is after an activity ended in outcome
after_activity(outcome) == IF outcome = "returned" THEN "waiting" ELSE "dead"

\* _run 78: the initial fetch ends
RunInitial ==
    /\ \E t \in ThreadIds, outcome \in ActivityOutcomes :
          /\ loop.pcs[t] = "initial"
          /\ loop' = [loop EXCEPT !.pcs[t] = after_activity(outcome)]
    /\ UNCHANGED <<apart, threshold, configured, owner_active, comments, replies, sched,
                   decision, sched2, callers>>

\* mutant of while_test: the loop does not look at the flag
while_test_forever(running) == TRUE

\* _run 80: while self.running
while_test(running) == running

\* _run 80-81: the while test, then run_pending starts a due job
RunPending ==
    /\ \E t \in ThreadIds :
          /\ loop.pcs[t] = "waiting"
          /\ IF ~while_test(loop.running)
             THEN loop' = [loop EXCEPT !.pcs[t] = "ended"]
             ELSE \E a \in Activities : loop' = [loop EXCEPT !.pcs[t] = a]
    /\ UNCHANGED <<apart, threshold, configured, owner_active, comments, replies, sched,
                   decision, sched2, callers>>

\* _run 81: the job run_pending started ends
RunActivity ==
    /\ \E t \in ThreadIds, outcome \in ActivityOutcomes :
          /\ loop.pcs[t] \in Activities
          /\ loop' = [loop EXCEPT !.pcs[t] = after_activity(outcome)]
    /\ UNCHANGED <<apart, threshold, configured, owner_active, comments, replies, sched,
                   decision, sched2, callers>>

----------------------------------------------------------------------------
(* CRUDComment.create_or_update called by two threads *)

\* the two callers: the scheduler threads of two dashboard sessions, or a
\* scheduler thread and a dashboard script run; each has its own session
Callers == {"a", "b"}

\* no call in progress
NoCallers == <<>>

\* a call about to start: the key and the type of its comment_data
NewCalls ==
    [pc : {"start"}, platform_comment_id : CommentIds, comment_type : {"praise", "lead"},
     existing : {{}}]

\* create_or_update 112-116: existing = self.get_by_platform_id(...), one SELECT
UpsertLookup ==
    /\ \E k \in Callers :
          /\ callers[k].pc = "start"
          /\ callers' = [callers EXCEPT
                ![k].pc = "looked",
                ![k].existing = get_by_platform_id(comments, "facebook",
                                                   callers[k].platform_comment_id)]
    /\ UNCHANGED <<apart, threshold, configured, owner_active, comments, replies, sched,
                   decision, sched2, loop>>

\* create_or_update 117-119: update of the row found, or create (INSERT and
\* commit); the table has no unique constraint on the key
UpsertWrite ==
    /\ \E k \in Callers :
          /\ callers[k].pc = "looked"
          /\ comments' =
                IF callers[k].existing # {}
                THEN [comments EXCEPT ![FirstOf(callers[k].existing)].comment_type =
                                          callers[k].comment_type]
                ELSE Append(comments, CommentRow("facebook", callers[k].platform_comment_id,
                                                 callers[k].comment_type))
          /\ callers' = [callers EXCEPT ![k].pc = "done"]
    /\ UNCHANGED <<apart, threshold, configured, owner_active, replies, sched, decision,
                   sched2, loop>>

----------------------------------------------------------------------------
(* CRUDSettings *)

SettingRow(k, v) == [key |-> k, value |-> v]

NoSettings == <<>>

\* another key of the table and the values written under it
OtherKey == "other"
OtherValues == {"x", "y"}

\* get_by_key: the ids of the rows the filter matches
get_by_key(rows, key) == {i \in DOMAIN rows : rows[i].key = key}

\* get_value(db, key, default)
get_value(rows, key, default) ==
    LET found == get_by_key(rows, key)
    IN  IF found = {} THEN default ELSE rows[FirstOf(found)].value

\* mutant of set_value: a row is created on every call
set_value_insert(rows, key, value) == Append(rows, SettingRow(key, value))

\* set_value(db, key, value)
set_value(rows, key, value) ==
    LET found == get_by_key(rows, key)
    IN  IF found # {}
        THEN [rows EXCEPT ![FirstOf(found)].value = value]
        ELSE Append(rows, SettingRow(key, value))

\* str(active)
str(active) == IF active THEN "True" ELSE "False"

\* <string>.lower(), on the strings stored as setting values
lower_value(v) ==
    CASE v = "True" -> "true"
      [] v = "False" -> "false"
      [] OTHER -> v

\* get_owner_active(db)
get_owner_active(rows) == lower_value(get_value(rows, "owner_active", "false")) = "true"

\* set_owner_active(db, active)
set_owner_active(rows, active) == set_value(rows, "owner_active", lower_value(str(active)))

\* the calls made so far: the booleans passed to set_owner_active, in order, and
\* what the last get_owner_active returned
NoCalls == [passed |-> <<>>, got |-> <<>>]

\* dashboard.py 186: crud_settings.set_owner_active(db, new_owner_active)
SetOwnerActive ==
    /\ Len(decision.passed) < MaxWrites
    /\ \E active \in BOOLEAN :
          /\ settings' = set_owner_active(settings, active)
          /\ decision' = [decision EXCEPT !.passed = Append(@, active)]
    /\ UNCHANGED <<threshold, configured, owner_active, comments, replies, sched,
                   sched2, loop, callers, notice>>

\* set_value under another key
SetValue ==
    /\ \E v \in OtherValues : settings' = set_value(settings, OtherKey, v)
    /\ UNCHANGED <<threshold, configured, owner_active, comments, replies, sched,
                   decision, sched2, loop, callers, notice>>

\* dashboard.py 173, scheduler.py 90 and 259: crud_settings.get_owner_active(db)
GetOwnerActive ==
    /\ decision' = [decision EXCEPT !.got = <<get_owner_active(settings)>>]
    /\ UNCHANGED <<threshold, configured, owner_active, comments, replies, sched,
                   sched2, loop, callers, settings, notice>>

----------------------------------------------------------------------------
(* TaskScheduler.register_callback / notify_update *)

\* the events the scheduler notifies: _fetch_platform_data 190, _post_reply 242
Events == {"new_comment", "reply_posted"}

\* callbacks: the length of update_callbacks, the k-th registered callback being
\* k; pc: no notify_update call yet, inside the loop of one, or the last one
\* returned to the code that emitted the event, or an exception left it; next:
\* the callback the loop is at; log: the callbacks invoked and how each ended
NoNotice == [callbacks |-> 0, pc |-> "idle", event |-> "none", next |-> 0, log |-> <<>>]

CallbackOutcomes == {"returned", "raised"}

\* mutant of after_callback: the exception of a callback is not caught
after_callback_uncaught(outcome) == IF outcome = "raised" THEN "propagate" ELSE "continue"

\* notify_update 50-53: try / except Exception around each callback
after_callback(outcome) == "continue"

\* register_callback 45
RegisterCallback ==
    /\ notice.pc \in {"idle", "returned"}
    /\ notice.callbacks < MaxObservers
    /\ notice' = [NoNotice EXCEPT !.callbacks = notice.callbacks + 1]
    /\ UNCHANGED <<threshold, configured, owner_active, comments, replies, sched,
                   decision, sched2, loop, callers, settings>>

\* notify_update 47-49 is called with an event
NotifyStart ==
    /\ notice.pc \in {"idle", "returned"}
    /\ \E e \in Events :
          notice' = [notice EXCEPT !.pc = "notifying", !.event = e, !.next = 1,
                                   !.log = <<>>]
    /\ UNCHANGED <<threshold, configured, owner_active, comments, replies, sched,
                   decision, sched2, loop, callers, settings>>

\* notify_update 49-53: one iteration of the loop over update_callbacks
NotifyCall ==
    /\ notice.pc = "notifying"
    /\ notice.next <= notice.callbacks
    /\ \E outcome \in CallbackOutcomes :
          LET logged == Append(notice.log, [callback |-> notice.next, outcome |-> outcome])
          IN  notice' = IF after_callback(outcome) = "continue"
                        THEN [notice EXCEPT !.next = @ + 1, !.log = logged]
                        ELSE [notice EXCEPT !.pc = "escaped", !.log = logged]
    /\ UNCHANGED <<threshold, configured, owner_active, comments, replies, sched,
                   decision, sched2, loop, callers, settings>>

\* notify_update returns: the fetch cycle or the posting step goes on
NotifyReturn ==
    /\ notice.pc = "notifying"
    /\ notice.next > notice.callbacks
    /\ notice' = [notice EXCEPT !.pc = "returned"]
    /\ UNCHANGED <<threshold, configured, owner_active, comments, replies, sched,
                   decision, sched2, loop, callers, settings>>

----------------------------------------------------------------------------
(* Dashboard *)

\* Owner Control toggle: crud_settings.set_owner_active(db, new_owner_active)
ToggleOwner ==
    /\ owner_active' = ~owner_active
    /\ UNCHANGED <<aside, threshold, configured, comments, replies, sched, decision>>

\* CommentProcessor.approve_reply, from the Approve button of a pending reply
ApproveReply ==
    /\ \E r \in DOMAIN replies :
          /\ replies[r].status = "pending"
          /\ replies' = approve(replies, r, "manual")
          /\ comments' = mark_as_replied(comments, replies[r].comment_id)
    /\ UNCHANGED <<aside, threshold, configured, owner_active, sched, decision>>

\* CommentProcessor.reject_reply, from the Reject button of a pending reply
RejectReply ==
    /\ \E r \in DOMAIN replies :
          /\ replies[r].status = "pending"
          /\ replies' = reject(replies, r)
    /\ UNCHANGED <<aside, threshold, configured, owner_active, comments, sched, decision>>

\* process_comment called for a stored comment: by the AI Reply button
\* (dashboard.py 364-374), or by the fetch cycle of another scheduler that found
\* the comment new before it was stored
Reprocess ==
    /\ Len(replies) < MaxReplies
    /\ \E i \in DOMAIN comments, cls \in CommentTypes, gen \in GenOutcomes,
          db \in DbOutcomes :
          LET res == process_comment(comments, replies, comments[i].platform,
                                     comments[i].platform_comment_id, cls, gen, db,
                                     threshold)
          IN  /\ comments' = res.comments
              /\ replies' = res.replies
    /\ UNCHANGED <<aside, threshold, configured, owner_active, sched, decision>>

----------------------------------------------------------------------------
(* Specifications *)

NoDecision == [comment_type |-> "general", confidence |-> 0, result |-> "none"]

Init ==
    /\ threshold \in Thresholds
    /\ configured \in Deployments
    /\ owner_active = FALSE
    /\ comments = <<>>
    /\ replies = <<>>
    /\ sched = IdleSched
    /\ sched2 = IdleSched
    /\ loop = NoLoop
    /\ callers = NoCallers
    /\ settings = NoSettings
    /\ notice = NoNotice
    /\ decision = NoDecision

Next ==
    \/ FetchStart
    \/ FetchPlatform
    \/ FetchComment
    \/ FetchPost
    \/ FetchMark
    \/ SweepStart
    \/ SweepReply
    \/ SweepPost
    \/ SweepMark
    \/ ToggleOwner
    \/ ApproveReply
    \/ RejectReply

Spec == Init /\ [][Next]_vars

\* the scheduler and the owner toggle alone: no manual approval or rejection
AutoNext ==
    \/ FetchStart
    \/ FetchPlatform
    \/ FetchComment
    \/ FetchPost
    \/ FetchMark
    \/ SweepStart
    \/ SweepReply
    \/ SweepPost
    \/ SweepMark
    \/ ToggleOwner

AutoSpec == Init /\ [][AutoNext]_vars

\* _run 73-82: while the loop runs, every started activity runs to its end and
\* both the fetch cycle and the sweep come due again and again
LiveSpec ==
    /\ Init /\ [][Next]_vars
    /\ SF_vars(FetchStart) /\ SF_vars(SweepStart)
    /\ WF_vars(FetchPlatform) /\ WF_vars(FetchComment)
    /\ WF_vars(FetchPost) /\ WF_vars(FetchMark)
    /\ WF_vars(SweepReply) /\ WF_vars(SweepPost) /\ WF_vars(SweepMark)

\* _needs_approval evaluated on one input; result: "none" before the call, then
\* the returned boolean ("True": needs approval)
DecideInit ==
    /\ threshold \in Thresholds
    /\ configured = {}
    /\ owner_active = FALSE
    /\ comments = <<>>
    /\ replies = <<>>
    /\ sched = IdleSched
    /\ sched2 = IdleSched
    /\ loop = NoLoop
    /\ callers = NoCallers
    /\ settings = NoSettings
    /\ notice = NoNotice
    /\ decision \in [comment_type : DecisionTypes, confidence : Confidences,
                      result : {"none"}]

Decide ==
    /\ decision.result = "none"
    /\ decision' = [decision EXCEPT
            !.result = IF needs_approval(decision.comment_type, decision.confidence,
                                         threshold)
                       THEN "True" ELSE "False"]
    /\ UNCHANGED <<aside, threshold, configured, owner_active, comments, replies, sched>>

DecideSpec == DecideInit /\ [][Decide]_vars

\* one call of process_comment on a raw comment, the tables empty; decision holds
\* the raw comment, the outcomes of the calls made and, after the call, its result
CallInit ==
    /\ threshold \in Thresholds
    /\ configured = {}
    /\ owner_active = FALSE
    /\ comments = <<>>
    /\ replies = <<>>
    /\ sched = IdleSched
    /\ sched2 = IdleSched
    /\ loop = NoLoop
    /\ callers = NoCallers
    /\ settings = NoSettings
    /\ notice = NoNotice
    /\ \E raw \in RawCalls : decision = [raw |-> raw, done |-> FALSE, result |-> NoResult]

Call ==
    /\ ~decision.done
    /\ LET out == process_call(decision.raw, threshold)
       IN  /\ comments' = out.comments
           /\ replies' = out.replies
           /\ decision' = [decision EXCEPT !.done = TRUE, !.result = out.result]
    /\ UNCHANGED <<aside, threshold, configured, owner_active, sched>>

CallSpec == CallInit /\ [][Call]_vars

\* one scheduler under any sequence of start() and stop() calls
LoopNext ==
    \/ LoopStart
    \/ LoopStop
    \/ RunInitial
    \/ RunPending
    \/ RunActivity

LoopSpec == Init /\ [][LoopNext]_vars

\* two calls of create_or_update, on an empty table or on one holding a row
UpsertInit ==
    /\ threshold \in Thresholds
    /\ configured = {}
    /\ owner_active = FALSE
    /\ comments \in {<<>>, <<CommentRow("facebook", "c1", "general")>>}
    /\ replies = <<>>
    /\ sched = IdleSched
    /\ sched2 = IdleSched
    /\ loop = NoLoop
    /\ decision = NoDecision
    /\ callers \in [Callers -> NewCalls]
    /\ settings = NoSettings
    /\ notice = NoNotice

UpsertNext ==
    \/ UpsertLookup
    \/ UpsertWrite

UpsertSpec == UpsertInit /\ [][UpsertNext]_vars

\* the program with two dashboard sessions open: the first session's scheduler,
\* the dashboard actions and the sweep of the second session's scheduler
TwinNext ==
    \/ FetchStart
    \/ FetchPlatform
    \/ FetchComment
    \/ FetchPost
    \/ FetchMark
    \/ SweepStart
    \/ SweepReply
    \/ SweepPost
    \/ SweepMark
    \/ ToggleOwner
    \/ ApproveReply
    \/ RejectReply
    \/ Sweep2Start
    \/ Sweep2Reply
    \/ Sweep2Post
    \/ Sweep2Mark

TwinSpec == Init /\ [][TwinNext]_vars

\* a backlog one longer than the sweep's limit: the scheduler was idle or the
\* owner active while the pipeline's replies accumulated
Backlog == SweepLimit + 1

\* auto_approve_confidence configured as the confidence of a short lead reply
BacklogThreshold == calculate_confidence("lead", FALSE)

\* the tables after process_comment stored Backlog facebook comments, the model
\* call of generate_reply having failed for all but the k-th, a lead
BacklogComments(k) ==
    [i \in 1..Backlog |->
        CommentRow("facebook", ToString(i), IF i = k THEN "lead" ELSE "general")]

BacklogReplies(k) ==
    [i \in 1..Backlog |->
        LET g == generate_reply(IF i = k THEN "lead" ELSE "general",
                                IF i = k THEN "short" ELSE "fail", BacklogThreshold)
        IN  ReplyRow(i, reply_status(g.needs_approval), g.confidence, g.reply)]

BacklogInit ==
    /\ threshold = BacklogThreshold
    /\ configured \in Deployments
    /\ owner_active = FALSE
    /\ \E k \in 1..Backlog :
          /\ comments = BacklogComments(k)
          /\ replies = BacklogReplies(k)
    /\ sched = IdleSched
    /\ sched2 = IdleSched
    /\ loop = NoLoop
    /\ callers = NoCallers
    /\ settings = NoSettings
    /\ notice = NoNotice
    /\ decision = NoDecision

\* the sweeps of one scheduler and the owner toggle
BacklogNext ==
    \/ SweepStart
    \/ SweepReply
    \/ SweepPost
    \/ SweepMark
    \/ ToggleOwner

\* _run 81-82: the sweep comes due again and again and runs to its end
BacklogSpec ==
    /\ BacklogInit /\ [][BacklogNext]_vars
    /\ SF_vars(SweepStart)
    /\ WF_vars(SweepReply) /\ WF_vars(SweepPost) /\ WF_vars(SweepMark)

\* the scheduler loop where every thread goes on: an activity ends, the while
\* test is made again
LoopLiveSpec ==
    /\ Init /\ [][LoopNext]_vars
    /\ WF_vars(RunInitial) /\ WF_vars(RunPending) /\ WF_vars(RunActivity)

\* a comment the pipeline stored, processed again any number of times, with the
\* dashboard's approvals and rejections and the sweeps of one scheduler
DeskInit ==
    /\ threshold \in Thresholds
    /\ configured \in Deployments
    /\ owner_active = FALSE
    /\ \E t \in CommentTypes : comments = <<CommentRow("facebook", "c1", t)>>
    /\ replies = <<>>
    /\ sched = IdleSched
    /\ sched2 = IdleSched
    /\ loop = NoLoop
    /\ callers = NoCallers
    /\ settings = NoSettings
    /\ notice = NoNotice
    /\ decision = NoDecision

DeskNext ==
    \/ Reprocess
    \/ ApproveReply
    \/ RejectReply
    \/ ToggleOwner
    \/ SweepStart
    \/ SweepReply
    \/ SweepPost
    \/ SweepMark

DeskSpec == DeskInit /\ [][DeskNext]_vars

\* _detect_triggers evaluated on one comment, reply and comment type
TriggerInit ==
    /\ threshold \in Thresholds
    /\ configured = {}
    /\ owner_active = FALSE
    /\ comments = <<>>
    /\ replies = <<>>
    /\ sched = IdleSched
    /\ sched2 = IdleSched
    /\ loop = NoLoop
    /\ callers = NoCallers
    /\ settings = NoSettings
    /\ notice = NoNotice
    /\ decision \in [comment_type : DecisionTypes, comment : WordTexts,
                      reply : WordTexts, done : {FALSE},
                      result : {[tags |-> <<>>, workflows |-> <<>>]}]

Detect ==
    /\ ~decision.done
    /\ decision' = [decision EXCEPT
            !.done = TRUE,
            !.result = detect_trigger_lists(decision.comment_type, decision.comment,
                                            decision.reply)]
    /\ UNCHANGED <<aside, threshold, configured, owner_active, comments, replies, sched>>

TriggerSpec == TriggerInit /\ [][Detect]_vars

\* calls of CRUDSettings on a table that starts empty
SettingsInit ==
    /\ threshold \in Thresholds
    /\ configured = {}
    /\ owner_active = FALSE
    /\ comments = <<>>
    /\ replies = <<>>
    /\ sched = IdleSched
    /\ sched2 = IdleSched
    /\ loop = NoLoop
    /\ callers = NoCallers
    /\ settings = NoSettings
    /\ notice = NoNotice
    /\ decision = NoCalls

SettingsNext ==
    \/ SetOwnerActive
    \/ SetValue
    \/ GetOwnerActive

SettingsSpec == SettingsInit /\ [][SettingsNext]_vars

\* observers registering and events being notified
ObserverNext ==
    \/ RegisterCallback
    \/ NotifyStart
    \/ NotifyCall
    \/ NotifyReturn

ObserverSpec == Init /\ [][ObserverNext]_vars

----------------------------------------------------------------------------
(* Properties *)

ReplyIds == DOMAIN replies

TypeOf(r) == comments[replies[r].comment_id].comment_type

\* the reply is as the pipeline created it: never approved, rejected or posted
Untouched(r) ==
    replies[r].approved_by = "null" /\ replies[r].status \in {"pending", "auto_approved"}

\* this step is the adapter's post call
PostCallStep == sched.pc \in {"fetch_post", "sweep_post"} /\ sched'.pc # sched.pc

\* this step handles the result of the adapter's post call
PostMarkStep == sched.pc \in {"fetch_mark", "sweep_mark"} /\ sched'.pc # sched.pc

\* this step sets the status of reply r to posted
BecomesPosted(r) ==
    /\ r \in DOMAIN replies'
    /\ replies'[r].status = "posted"
    /\ (r \in DOMAIN replies => replies[r].status # "posted")

\* C1: at most one Comment row exists for each (platform, platform_comment_id),
\* whatever the adapters return in any number of fetch cycles.
C1_OneRowPerKey ==
    \A i, j \in DOMAIN comments :
        (/\ comments[i].platform = comments[j].platform
         /\ comments[i].platform_comment_id = comments[j].platform_comment_id) => i = j

\* C1 witness: a stored comment's id is fetched again and is next in the loop.
C1_Witness ==
    /\ sched.pc = "fetch_comments"
    /\ sched.new_comments # <<>>
    /\ get_by_platform_id(comments, sched.platform, Head(sched.new_comments)) # {}

\* C2 (as claimed): no step made while owner_active is true is an adapter post
\* call or marks a reply posted.
C2_NoPostWhileOwnerActive ==
    [][owner_active =>
        /\ ~PostCallStep
        /\ \A r \in DOMAIN replies' : ~BecomesPosted(r)]_vars

\* C3: a step sets a Reply's status to posted only if it is the scheduler handling
\* the success result of the adapter's post call for that reply.
C3_PostedOnlyAfterSuccess ==
    [][\A r \in DOMAIN replies' :
          BecomesPosted(r) =>
              PostMarkStep /\ sched.reply = r /\ sched.result = "success"]_vars

\* C3 witness: a reply has been posted.
C3_Witness == \E r \in ReplyIds : replies[r].status = "posted"

\* C4: a reply to a complaint or lead comment is never auto_approved, and as long
\* as nobody approved or rejected it its status is pending.
C4_SensitiveNeverAuto ==
    \A r \in ReplyIds :
        TypeOf(r) \in {"complaint", "lead"} =>
            /\ replies[r].status # "auto_approved"
            /\ (replies[r].approved_by = "null" /\ replies[r].status # "rejected"
                    => replies[r].status = "pending")

\* C4 witness: a lead or complaint reply with confidence at or above the
\* threshold was created pending.
C4_Witness ==
    \E r \in ReplyIds :
        /\ TypeOf(r) \in {"complaint", "lead"}
        /\ replies[r].confidence >= threshold
        /\ Untouched(r) /\ replies[r].status = "pending"

\* C5 (as claimed): a created praise or general reply is auto_approved if its
\* confidence is at least the threshold and pending if it is below.
C5_AutoIffAtLeastThreshold ==
    \A r \in ReplyIds :
        (TypeOf(r) \in {"praise", "general"} /\ Untouched(r)) =>
            (replies[r].status = "auto_approved" <=> replies[r].confidence >= threshold)

\* C5 (amended): a created praise or general reply whose text the model generated
\* (not the fallback reply) is auto_approved if its confidence is at least the
\* threshold and pending if it is below; the fallback reply is pending.
C5_AutoIffAtLeastThresholdGenerated ==
    \A r \in ReplyIds :
        (TypeOf(r) \in {"praise", "general"} /\ Untouched(r)) =>
            IF replies[r].content = "generated"
            THEN replies[r].status = "auto_approved" <=> replies[r].confidence >= threshold
            ELSE replies[r].status = "pending"

\* C5 witness: a praise or general reply with confidence equal to the threshold
\* was created auto_approved.
C5_Witness ==
    \E r \in ReplyIds :
        /\ TypeOf(r) \in {"praise", "general"}
        /\ replies[r].confidence = threshold
        /\ replies[r].status = "auto_approved"

C7_SensitiveNeverAutoPromoted ==
    \A r \in ReplyIds :
        TypeOf(r) \in {"complaint", "lead"} =>
            replies[r].status \notin {"approved", "posted"}

\* C8: a post attempt that fails (failure result or exception) leaves the replies
\* table, so the reply's status, platform reply id and posted timestamp, as it was.
C8_FailedPostChangesNothing ==
    [][/\ PostCallStep => replies' = replies
       /\ (PostMarkStep /\ sched.result # "success") => replies' = replies]_vars

\* C8 witness: the adapter call for an approved or auto_approved reply failed.
C8_Witness ==
    /\ sched.pc \in {"fetch_mark", "sweep_mark"}
    /\ sched.result \in {"failure", "raise"}
    /\ replies[sched.reply].status \in {"approved", "auto_approved"}

\* the post attempt for reply r has just failed
PostFailed(r) ==
    /\ sched.pc \in {"fetch_mark", "sweep_mark"}
    /\ sched.reply = r
    /\ sched.result \in {"failure", "raise"}

\* the scheduler is about to call the adapter for reply r
PostAttempt(r) == sched.pc \in {"fetch_post", "sweep_post"} /\ sched.reply = r

\* C9 (as claimed): after a failed post attempt for a reply, a later sweep or
\* fetch cycle attempts it again, unless owner_active becomes true.
C9_FailedPostRetried ==
    \A r \in 1..MaxComments :
        PostFailed(r) ~> (PostAttempt(r) \/ owner_active)

\* C10 (as claimed): once the pipeline has recorded a Reply for a comment, the
\* comment's has_reply is true (also after a failed post attempt).
C10_HasReplyAfterPipeline ==
    \A r \in ReplyIds : comments[replies[r].comment_id].has_reply

\* C11 (as claimed): every Comment with has_reply = true has at least one Reply
\* whose status is posted or auto_approved, also after a manual approval.
C11_RepliedHasPostedOrAuto ==
    \A i \in DOMAIN comments :
        comments[i].has_reply =>
            \E r \in ReplyIds :
                /\ replies[r].comment_id = i
                /\ replies[r].status \in {"posted", "auto_approved"}

\* this step is the sweep's loop iteration for reply r
SweepScans(r) ==
    /\ sched.pc = "sweep_replies"
    /\ sched.pending # <<>>
    /\ Head(sched.pending) = r
    /\ sched'.pending # sched.pending

FetchIterates(c) ==
    /\ sched.pc = "fetch_comments"
    /\ sched.new_comments # <<>>
    /\ Head(sched.new_comments) = c
    /\ sched'.new_comments # sched.new_comments

\* no Comment row has this platform and platform comment id
NotStored(p, c) ==
    \A i \in DOMAIN comments :
        ~(comments[i].platform = p /\ comments[i].platform_comment_id = c)

\* C13 (as claimed): in a fetch cycle every fetched comment of a configured
\* adapter whose (platform, platform_comment_id) is not yet stored is run through
\* the pipeline.
C13_NewCommentsProcessed ==
    [][\A c \in CommentIds :
          (FetchIterates(c) /\ NotStored(sched.platform, c)) => sched'.processed]_vars

C17_FailureDoesNotStopLoop ==
    [][\A c \in CommentIds :
          FetchIterates(c) =>
              /\ sched'.new_comments = Tail(sched.new_comments)
              /\ sched'.platform = sched.platform
              /\ sched'.pc \in {"fetch_comments", "fetch_post"}]_vars

\* the Reply row the call created
CallReply == replies[1]

\* C15 (as claimed): when the classification call or the generation call of the
\* AI engine fails, the Reply created has confidence 0.3 and status pending.
C15_AIFailureForcesApproval ==
    (/\ decision.done
     /\ decision.result.success
     /\ decision.result.method = "fallback" \/ decision.raw.gen = "fail")
        => CallReply.confidence = FallbackConfidence /\ CallReply.status = "pending"

\* C18: process_comment on a raw comment lacking platform or content returns
\* success False with an error, does not raise, and creates no Comment row and
\* no Reply row.
C18_MissingFieldIsReturned ==
    (decision.done /\ decision.raw.fields # "complete") =>
        /\ ~decision.result.success
        /\ decision.result.error
        /\ ~decision.result.raised
        /\ comments = <<>>
        /\ replies = <<>>

\* C18 witness: a call on a raw comment without content has returned an error.
C18_Witness ==
    /\ decision.done
    /\ decision.raw.fields = "no_content"
    /\ decision.result.error

\* the CRM step of the call ran: the reply was generated with workflows to trigger
CrmStepRan ==
    /\ decision.raw.fields = "complete"
    /\ decision.raw.db = "ok"
    /\ decision.raw.gen # "fail"
    /\ detect_triggers(decision.result.type, decision.raw.words)

\* C19 (as claimed): when the CRM step fails (contact creation, workflow trigger
\* or action recording), the call still returns success True with the failure
\* in the result's CRM field, and the Comment and Reply rows are persisted.
C19_CrmFailureContained ==
    (decision.done /\ CrmStepRan /\ decision.raw.crm # "ok") =>
        /\ decision.result.success
        /\ ~decision.result.raised
        /\ decision.result.ghl = "failed"
        /\ Len(comments) = 1
        /\ Len(replies) = 1

\* a configured keyword of type t occurs in the text, capitals or not
KeywordIn(t, text) ==
    \E o \in text, k \in Keywords(t) :
        k = o.phrase \/ (k = "how" /\ o.phrase = "how much")

\* C20: when a configured keyword occurs in the lowercased text, classification
\* returns a type one of whose keywords occurs, with confidence 0.85 and method
\* keyword, and the model is not called; a text containing "how much" is
\* classified lead whatever the model would answer.
C20_KeywordShortCircuit ==
    (decision.done /\ decision.raw.fields = "complete") =>
        /\ (\E t \in Range(KeywordOrder) : KeywordIn(t, decision.raw.text)) =>
              /\ decision.result.method = "keyword"
              /\ decision.result.confidence = KeywordConfidence
              /\ ~decision.result.called
              /\ decision.result.type \in Range(KeywordOrder)
              /\ KeywordIn(decision.result.type, decision.raw.text)
        /\ (\E o \in decision.raw.text : o.phrase = "how much") =>
              decision.result.type = "lead"

\* C20 witness: a text with "How Much" in capitals and a praise keyword, which
\* the model would call praise, has been classified lead.
C20_Witness ==
    /\ decision.done
    /\ decision.raw.text = {[phrase |-> "how much", capitals |-> TRUE],
                            [phrase |-> "great", capitals |-> FALSE]}
    /\ decision.raw.model.type = "praise"
    /\ decision.result.type = "lead"
    /\ decision.result.method = "keyword"

\* C22 (as claimed): for one scheduler and any sequence of start() and stop()
\* calls, at most one thread is executing an activity (fetch cycle, sweep or
\* rollup) at any moment.
C22_OneActivityAtATime ==
    Cardinality({t \in ThreadIds : Executing(loop.pcs[t])}) <= 1

\* C30 (as claimed): an exception raised inside a fetch cycle, sweep or rollup
\* does not end the background loop: while running is true the thread of the
\* scheduler is alive.
C30_LoopSurvivesFailure ==
    loop.running => loop.pcs[loop.thread] # "dead"

\* C24 (as claimed): whatever the interleaving of two callers of
\* create_or_update, the table holds at most one Comment row for each platform
\* comment id.
C24_AtomicUpsert ==
    \A c \in CommentIds :
        Cardinality({i \in DOMAIN comments :
                        /\ comments[i].platform = "facebook"
                        /\ comments[i].platform_comment_id = c}) <= 1

\* this step is an adapter post call for reply r that succeeds
SuccessfulPost(r) ==
    \/ /\ sched.pc \in {"fetch_post", "sweep_post"}
       /\ sched.reply = r
       /\ sched'.pc \in {"fetch_mark", "sweep_mark"}
       /\ sched'.result = "success"
    \/ /\ sched2.pc = "sweep_post"
       /\ sched2.reply = r
       /\ sched2'.pc = "sweep_mark"
       /\ sched2'.result = "success"

\* an adapter post call for reply r has succeeded before
Sent(r) ==
    \/ replies[r].status = "posted"
    \/ sched.pc \in {"fetch_mark", "sweep_mark"} /\ sched.reply = r /\ sched.result = "success"
    \/ sched2.pc = "sweep_mark" /\ sched2.reply = r /\ sched2.result = "success"

\* C23 (as claimed): in every interleaving of fetch cycles, sweeps and dashboard
\* actions, no adapter post call succeeds for a reply for which one has already
\* succeeded.
C23_PostedAtMostOnce ==
    [][\A r \in DOMAIN replies : SuccessfulPost(r) => ~Sent(r)]_vars

\* C25 (as claimed): once a reply has status rejected, no step changes that
\* status or calls the adapter for it, whatever a running sweep is doing.
C25_RejectedStaysRejected ==
    [][\A r \in DOMAIN replies :
          replies[r].status = "rejected" =>
              /\ replies'[r].status = "rejected"
              /\ ~(PostCallStep /\ sched.reply = r)]_vars

\* C26 (as claimed): once a reply has status posted, no step of a dashboard
\* action or of a scheduler activity changes its status.
C26_PostedIsTerminal ==
    [][\A r \in DOMAIN replies :
          replies[r].status = "posted" => replies'[r].status = "posted"]_vars

\* the status the call's Reply would have were the threshold thr
StatusUnder(thr) == process_call(decision.raw, thr).replies[1].status

\* C21: the workflows the created Reply carries and the CRM step of the call do
\* not depend on the approval decision: they are what they would be under any
\* other threshold, so whether the Reply is pending or auto_approved, and the CRM
\* step runs exactly when the Reply carries workflows.
C21_CrmIndependentOfApproval ==
    (decision.done /\ decision.result.success) =>
        /\ (decision.result.ghl # "null") = decision.result.workflows
        /\ \A thr \in Thresholds :
              LET other == process_call(decision.raw, thr).result
              IN  /\ other.workflows = decision.result.workflows
                  /\ other.ghl = decision.result.ghl

\* C21 witness: a Reply created pending, which a lower threshold would have made
\* auto_approved, carries workflows and the CRM step succeeded.
C21_Witness ==
    /\ decision.done
    /\ decision.result.success
    /\ CallReply.status = "pending"
    /\ \E thr \in Thresholds : StatusUnder(thr) = "auto_approved"
    /\ decision.result.workflows
    /\ decision.result.ghl = "success"

\* the Comment row i is stored and no Reply row belongs to it
StoredWithoutReply(i) ==
    /\ i \in DOMAIN comments
    /\ \A r \in ReplyIds : replies[r].comment_id # i

\* C28 (as claimed): a Comment stored by a pipeline run that failed before its
\* Reply was stored is processed again by a later fetch cycle, so that it
\* eventually has a Reply.
C28_StoredCommentGetsReply ==
    \A i \in 1..MaxComments :
        StoredWithoutReply(i) ~> (i \in DOMAIN comments /\ ~StoredWithoutReply(i))

\* C29: under scheduler activity alone, a reply created auto_approved by a fetch
\* cycle that read owner_active = true is not posted by that cycle, and an
\* auto_approved reply that is not the one being posted keeps its status and is
\* picked by no later fetch cycle or sweep, whatever owner_active becomes.
C29_AutoApprovedStays ==
    [][\A r \in 1..MaxComments :
          /\ ( /\ r \notin DOMAIN replies
               /\ r \in DOMAIN replies'
               /\ replies'[r].status = "auto_approved"
               /\ sched.owner_active )
             => (sched'.reply # r /\ sched'.pc # "fetch_post")
          /\ ( /\ r \in DOMAIN replies
               /\ replies[r].status = "auto_approved"
               /\ sched.reply # r )
             => (replies'[r].status = "auto_approved" /\ sched'.reply # r)]_vars

\* C29 witness: a fetch cycle that read owner_active = true has just created an
\* auto_approved reply and left it unposted, and owner_active is false by now.
C29_Witness ==
    /\ sched.pc = "fetch_comments"
    /\ sched.processed
    /\ sched.owner_active
    /\ ~owner_active
    /\ \E r \in ReplyIds :
          /\ replies[r].status = "auto_approved"
          /\ replies[r].posted_at = "null"

\* the one reply of the backlog that the model generated: the lead's
BacklogLead == CHOOSE r \in ReplyIds : replies[r].content = "generated"

\* C27 (as claimed): a pending reply whose confidence is at least the threshold
\* is eventually promoted by a sweep, unless owner_active becomes true, however
\* many other pending replies exist.
C27_EligibleEventuallyPromoted ==
    ( /\ replies[BacklogLead].status = "pending"
      /\ CanAutoApprove(replies[BacklogLead].confidence, threshold) )
        ~> (replies[BacklogLead].status # "pending" \/ owner_active)

\* C31: a fetch cycle starts with the value owner_active has at that moment, a
\* sweep goes on only if owner_active is false at the moment it starts, and an
\* idle scheduler keeps nothing of the cycle before.
C31_OwnerReadFresh ==
    [][ /\ (sched.pc = "idle" /\ sched'.pc = "fetch_platforms")
              => sched'.owner_active = owner_active
        /\ (sched.pc = "idle" /\ sched'.pc = "sweep_replies")
              => (~owner_active /\ sched'.owner_active = owner_active)
        /\ sched'.pc = "idle" => sched' = IdleSched ]_vars

\* C31 witness: a cycle that read owner_active false posted a reply, the owner
\* toggled the setting, and the fetch cycle starting now acts on true.
C31_Witness ==
    /\ sched.pc = "fetch_platforms"
    /\ sched.todo = PlatformOrder
    /\ sched.owner_active
    /\ \E r \in ReplyIds : replies[r].status = "posted"

\* models.Reply.status: the values the code writes
ReplyStatuses == {"pending", "approved", "rejected", "auto_approved", "posted"}

\* the approval decision generate_reply returned for reply r
NeededApproval(r) ==
    \/ replies[r].content = "fallback"
    \/ needs_approval(TypeOf(r), replies[r].confidence, threshold)

\* C34: each Reply's status is one of pending, approved, rejected, auto_approved,
\* posted, and a Reply nobody touched since the pipeline created it is pending
\* when the decision was "needs approval" and auto_approved otherwise.
C34_StatusByDecision ==
    \A r \in ReplyIds :
        /\ replies[r].status \in ReplyStatuses
        /\ Untouched(r) =>
              /\ NeededApproval(r) => replies[r].status = "pending"
              /\ ~NeededApproval(r) => replies[r].status = "auto_approved"

\* C34 witness: the pipeline has just created a Reply auto_approved, the decision
\* being "no approval needed".
C34_Witness ==
    /\ sched.processed
    /\ \E r \in ReplyIds :
          /\ Untouched(r)
          /\ ~NeededApproval(r)
          /\ replies[r].status = "auto_approved"

\* every Reply row of table rs references a row of table cs
References(rs, cs) == \A r \in DOMAIN rs : rs[r].comment_id \in DOMAIN cs

\* C37: each Reply's comment_id is the id of a stored Comment, in every state
\* the pipeline leaves, a failed run included (the Comment is stored first).
C37_ReplyHasComment == References(replies, comments)

\* C37 witness: the fetch cycle has just stored a Comment of its platform and
\* the Reply that references it.
C37_Witness ==
    /\ sched.pc = "fetch_comments"
    /\ sched.processed
    /\ \E r \in ReplyIds :
          /\ replies[r].comment_id \in DOMAIN comments
          /\ comments[replies[r].comment_id].platform = sched.platform

\* C35 (as claimed): each pipeline attempt records exactly one analytics event:
\* comment_processed when it succeeds, processing_error when it fails.
C35_OneEventPerAttempt ==
    decision.done =>
        /\ Len(recorded_metrics(decision.result)) = 1
        /\ decision.result.success
              => recorded_metrics(decision.result) = <<"comment_processed">>
        /\ ~decision.result.success
              => recorded_metrics(decision.result) = <<"processing_error">>

\* the thread was never made or is over
Over(pc) == pc \in {"unborn", "ended", "dead"}

\* C38: a stop() changes what no thread is doing; a thread leaves an activity
\* only when the activity has ended; a thread that makes the while test while
\* running is false leaves the loop and a thread that left starts nothing; and
\* after stop() every thread is eventually over unless start() is called again.
C38_StopLetsActivityFinish ==
    /\ [][ /\ (loop.running /\ ~loop'.running) => loop'.pcs = loop.pcs
           /\ \A t \in ThreadIds :
                 /\ (Executing(loop.pcs[t]) /\ loop'.pcs[t] # loop.pcs[t])
                       => loop'.pcs[t] \in {"waiting", "dead"}
                 /\ (loop.pcs[t] = "waiting" /\ ~loop.running
                        /\ loop'.pcs[t] # loop.pcs[t])
                       => loop'.pcs[t] = "ended"
                 /\ loop.pcs[t] \in {"ended", "dead"}
                       => loop'.pcs[t] = loop.pcs[t] ]_vars
    /\ (~loop.running) ~> (loop.running \/ \A t \in ThreadIds : Over(loop.pcs[t]))

\* C38 witness: stop() was called and the last thread made has made the while
\* test since and left the loop.
C38_Witness ==
    /\ ~loop.running
    /\ loop.thread # 0
    /\ loop.pcs[loop.thread] = "ended"

\* C39 (as claimed): after stop() and start() on one scheduler each periodic
\* activity is registered exactly once.
C39_JobsRegisteredOnce ==
    (\E t \in ThreadIds : loop.pcs[t] # "unborn") => loop.jobs = 1

\* every Comment of table cs with has_reply true is in table ds with has_reply true
KeepsHasReply(cs, ds) ==
    \A i \in DOMAIN cs : cs[i].has_reply => (i \in DOMAIN ds /\ ds[i].has_reply)

\* C33: no step sets a Comment's has_reply back to false: not processing the
\* stored comment again (create_or_update on its row), not a rejection, not an
\* approval, not a sweep whose post fails.
C33_HasReplyNeverReverts == [][KeepsHasReply(comments, comments')]_vars

\* C33 witness: a Comment has has_reply true, one of its replies approved by
\* hand, and a later pipeline run for it has stored another Reply.
C33_Witness ==
    \E r, q \in ReplyIds :
        /\ r < q
        /\ replies[r].comment_id = replies[q].comment_id
        /\ comments[replies[r].comment_id].has_reply
        /\ replies[r].approved_by = "manual"
        /\ Untouched(q)

\* the boolean most recently passed to set_owner_active; false when none was
LastPassed == decision.passed # <<>> /\ decision.passed[Len(decision.passed)]

\* C40: get_owner_active returns the boolean most recently passed to
\* set_owner_active, false when the setting was never written, and the table
\* holds one owner_active row once it was written, none before, whatever is
\* written under other keys.
C40_OwnerActiveRoundTrip ==
    /\ get_owner_active(settings) = LastPassed
    /\ Cardinality(get_by_key(settings, "owner_active")) =
          IF decision.passed = <<>> THEN 0 ELSE 1

\* C40 witness: false, then true were passed, after a row of another key was
\* stored, and get_owner_active has returned true.
C40_Witness ==
    /\ Len(decision.passed) >= 2
    /\ ~decision.passed[Len(decision.passed) - 1]
    /\ LastPassed
    /\ decision.got = <<TRUE>>
    /\ Len(settings) = 2
    /\ settings[1].key = OtherKey

\* C32: one notify_update call invokes the registered callbacks in registration
\* order, each once, goes on after a callback that raised, and returns to the
\* code that emitted the event: no exception of a callback leaves it.
C32_AllObserversInvoked ==
    /\ notice.pc # "escaped"
    /\ \A k \in DOMAIN notice.log : notice.log[k].callback = k
    /\ notice.pc = "notifying" => Len(notice.log) = notice.next - 1
    /\ notice.pc = "returned" => Len(notice.log) = notice.callbacks

\* C32 witness: three callbacks are registered, the first raised, and the call
\* invoked the two after it and returned.
C32_Witness ==
    /\ notice.pc = "returned"
    /\ notice.callbacks >= 3
    /\ notice.log[1].outcome = "raised"
    /\ Len(notice.log) = notice.callbacks

\* the comment or the reply holds, in any capitals, a word that contains w
Written(w) ==
    \E o \in decision.comment \cup decision.reply :
        o.word = w \/ (w = "info" /\ o.word = "information")

\* the rule matches the comment type, the comment and the reply
RuleMatches(rule) ==
    \/ decision.comment_type \in RuleTypes(rule)
    \/ \E w \in RuleWords(rule) : Written(w)

\* C36: the tags and workflows lists hold the tag and the workflow of every
\* rule that matches the comment and the reply, of no other rule, and each once.
C36_TriggersAreUnion ==
    decision.done =>
        /\ \A i \in 1..Len(RuleOrder) :
              /\ RuleMatches(RuleOrder[i]) <=>
                    RuleTag(RuleOrder[i]) \in Range(decision.result.tags)
              /\ RuleMatches(RuleOrder[i]) <=>
                    RuleWorkflow(RuleOrder[i]) \in Range(decision.result.workflows)
        /\ Len(decision.result.tags) = Cardinality(Range(decision.result.tags))
        /\ Len(decision.result.workflows) = Cardinality(Range(decision.result.workflows))

\* C36 witness: a question whose comment asks for the price and whose reply
\* names a problem got both hot_lead and needs_support.
C36_Witness ==
    /\ decision.done
    /\ decision.comment_type = "question"
    /\ {"hot_lead", "needs_support"} \subseteq Range(decision.result.tags)
    /\ {"lead_nurture", "customer_service"} \subseteq Range(decision.result.workflows)

====
